---- MODULE Spec2Model ----
(***************************************************************************)
(* Trip planning pipeline of llm_planner.py (LLMTripPlanner) together with *)
(* the API clients it calls.  The planning record (TripState) is threaded  *)
(* through the nodes of the LangGraph workflow; every external call (HTTP  *)
(* client, LLM chain) is a nondeterministic choice over what the call can  *)
(* return or raise.                                                        *)
(***************************************************************************)
EXTENDS Integers, Sequences, FiniteSets, TLC

VARIABLES
  trip_details,  \* the request dict handed to plan_trip
  state,         \* the TripState dict of the current run
  pc,            \* "idle", the node graph.invoke runs next, "END", "returned" or "raised"
  executed,      \* the nodes this run has executed, in order
  invoked,       \* the collaborator calls this run has made and the ones that failed
  outcome,       \* the dict plan_trip returned
  token_cache,   \* AmadeusClient.token_cache
  propagated,    \* an exception has escaped plan_trip
  config,        \* the config dict handed to LLMTripPlanner
  runs,          \* the plan_trip calls made on the planner so far
  time           \* time.time(), in seconds since the planner was built

vars == <<trip_details, state, pc, executed, invoked, outcome, token_cache, propagated,
          config, runs, time>>

(***************************************************************************)
(* Bounds of the model.                                                    *)
(***************************************************************************)
\* longest list of destinations the alternates LLM answer carries
MaxAlternates == 6
\* longest list of flight options / hotel properties check_budget_node is
\* handed on its own
MaxOptions == 2
\* longest list of options in a search payload of a whole run
MaxRunOptions == 1
\* largest price or nightly rate in a search payload
MaxPrice == 3
\* most plan_trip calls made on one planner object
MaxRuns == 2
\* days before today, and days beyond the forecast horizon, a requested
\* date can lie
MaxDateOffset == 2
\* latest time, in seconds after the client was built, a call is made at
MaxClock == 3600

(***************************************************************************)
(* Program constants and fixed inputs.                                     *)
(***************************************************************************)
\* timedelta(days=15): the forecast horizon
FORECAST_DAYS == 15
\* date.today(), as a day number
Today == 20
\* the 30 second buffer of get_valid_token
TOKEN_BUFFER == 30
\* expires_in of a token response, in seconds
ExpiresIn == 1799

\* Python None where the other values are dicts
None == [none |-> TRUE]

\* Python truthiness of an optional JSON payload: None and {} are falsy
Truthy(x) == x # None /\ x # [empty |-> TRUE]

\* result of a call: a returned value or a raised exception
Return(v) == [exc |-> FALSE, val |-> v]
Raise(e) == [exc |-> TRUE, err |-> e]

\* a trace message: the fixed text of the f-string and its interpolated values
Msg(text, args) == [text |-> text, args |-> args]

RECURSIVE SeqsUpTo(_, _)
\* all sequences over S of length at most n
SeqsUpTo(S, n) ==
  IF n = 0 THEN {<<>>}
  ELSE LET shorter == SeqsUpTo(S, n - 1)
       IN  shorter \cup {Append(s, x) : s \in {t \in shorter : Len(t) = n - 1}, x \in S}

(***************************************************************************)
(* modules/api/open_meteo.py                                               *)
(***************************************************************************)
\* what the forecast HTTP request can produce: a populated JSON body, an
\* empty JSON object, or one of the two caught request failures
ForecastResponses == {"forecast", "{}", "SSLError", "RequestException"}

\* variant: an end date before the start date is sent as it is
fetch_forecast_data_end_unchecked(location, start_date, end_date, today, geo, http) ==
  IF geo = "error" THEN Raise("Error getting location") ELSE
  LET max_future == today + FORECAST_DAYS
      remarks1 == IF start_date < today THEN <<"start date is in the past; adjusted">> ELSE <<>>
      start_dt == IF start_date < today THEN today ELSE start_date
      remarks3 == IF end_date > max_future
                    THEN Append(remarks1, "end date exceeds forecast limit; adjusted")
                    ELSE remarks1
      end_dt == IF end_date > max_future THEN max_future ELSE end_date
  IN  IF start_dt > max_future
        THEN [exc |-> FALSE,
              val |-> [data |-> "None", remarks |-> <<"No forecast data available">>],
              request |-> None]
        ELSE LET data == IF http \in {"SSLError", "RequestException"} THEN "None" ELSE http
                 remarks == IF http = "SSLError"
                              THEN Append(remarks3, "SSL verification failed")
                            ELSE IF http = "RequestException"
                              THEN Append(remarks3, "API request failed")
                            ELSE remarks3
             IN  [exc |-> FALSE,
                  val |-> [data |-> data,
                           remarks |-> IF remarks # <<>> THEN remarks
                                       ELSE <<"Data fetched successfully">>],
                  request |-> [start_date |-> start_dt, end_date |-> end_dt]]

\* WeatherClient.fetch_forecast_data; geo is the outcome of the geocoding
\* lookup, http the outcome of the forecast request (used only if one is sent)
fetch_forecast_data(location, start_date, end_date, today, geo, http) ==
  IF geo = "error" THEN Raise("Error getting location") ELSE
  LET max_future == today + FORECAST_DAYS
      remarks1 == IF start_date < today THEN <<"start date is in the past; adjusted">> ELSE <<>>
      start_dt == IF start_date < today THEN today ELSE start_date
      remarks2 == IF end_date < start_dt
                    THEN Append(remarks1, "End date is before start date; adjusted")
                    ELSE remarks1
      end_dt2 == IF end_date < start_dt THEN start_dt ELSE end_date
      remarks3 == IF end_dt2 > max_future
                    THEN Append(remarks2, "end date exceeds forecast limit; adjusted")
                    ELSE remarks2
      end_dt == IF end_dt2 > max_future THEN max_future ELSE end_dt2
  IN  IF start_dt > max_future
        THEN [exc |-> FALSE,
              val |-> [data |-> "None", remarks |-> <<"No forecast data available">>],
              request |-> None]
        ELSE LET data == IF http \in {"SSLError", "RequestException"} THEN "None" ELSE http
                 remarks == IF http = "SSLError"
                              THEN Append(remarks3, "SSL verification failed")
                            ELSE IF http = "RequestException"
                              THEN Append(remarks3, "API request failed")
                            ELSE remarks3
             IN  [exc |-> FALSE,
                  val |-> [data |-> data,
                           remarks |-> IF remarks # <<>> THEN remarks
                                       ELSE <<"Data fetched successfully">>],
                  request |-> [start_date |-> start_dt, end_date |-> end_dt]]

(***************************************************************************)
(* llm_planner.py: the planning record                                     *)
(***************************************************************************)
\* the TripState dict plan_trip builds from trip_details
InitialState(td) ==
  [destination |-> td.destination,
   departure |-> td.departure,
   start_date |-> td.start_date,
   end_date |-> td.end_date,
   duration |-> td.duration,
   adults |-> td.adults,
   budget_flight |-> td.budget_flight,
   budget_hotel |-> td.budget_hotel,
   travel_type |-> td.travel_type,
   weather_data |-> None,
   weather_favorable |-> TRUE,
   weather_analysis |-> "",
   alternate_destinations |-> <<>>,
   flights |-> None,
   hotels |-> None,
   attractions |-> None,
   budget_feasible |-> TRUE,
   budget_notes |-> <<>>,
   itinerary |-> "",
   itinerary_markdown |-> "",
   current_step |-> "initialized",
   messages |-> <<>>,
   needs_replanning |-> FALSE]

\* result of a node: the record it returns, or the exception that escapes
\* it, with the collaborator calls it made and those of them that failed
NodeReturn(s, calls) == [exc |-> FALSE, state |-> s, calls |-> calls]
NodeRaise(s, calls) == [exc |-> TRUE, state |-> s, calls |-> calls]

(***************************************************************************)
(* llm_planner.py: fetch_weather_node                                      *)
(***************************************************************************)
\* variant: the except branch records no trace message
fetch_weather_node_silent(s, today, geo, http) ==
  LET result == fetch_forecast_data(s.destination, s.start_date, s.end_date, today, geo, http)
      calls == {"geocoding"}
                 \cup (IF geo = "error" THEN {"geocoding failed"} ELSE {})
                 \cup (IF ~result.exc /\ result.request # None THEN {"forecast"} ELSE {})
                 \cup (IF ~result.exc /\ result.request # None
                          /\ http \in {"SSLError", "RequestException"}
                        THEN {"forecast failed"} ELSE {})
  IN  IF ~result.exc
        THEN NodeReturn([s EXCEPT !.weather_data = result.val,
                                  !.messages = Append(@, Msg("Weather data fetched", result.val.remarks)),
                                  !.current_step = "weather_fetched"], calls)
        ELSE NodeReturn([s EXCEPT !.weather_data = None], calls)

fetch_weather_node(s, today, geo, http) ==
  LET result == fetch_forecast_data(s.destination, s.start_date, s.end_date, today, geo, http)
      calls == {"geocoding"}
                 \cup (IF geo = "error" THEN {"geocoding failed"} ELSE {})
                 \cup (IF ~result.exc /\ result.request # None THEN {"forecast"} ELSE {})
                 \cup (IF ~result.exc /\ result.request # None
                          /\ http \in {"SSLError", "RequestException"}
                        THEN {"forecast failed"} ELSE {})
  IN  IF ~result.exc
        THEN NodeReturn([s EXCEPT !.weather_data = result.val,
                                  !.messages = Append(@, Msg("Weather data fetched", result.val.remarks)),
                                  !.current_step = "weather_fetched"], calls)
        ELSE NodeReturn([s EXCEPT !.messages = Append(@, Msg("Weather fetch error", <<result.err>>)),
                                  !.weather_data = None], calls)

(***************************************************************************)
(* llm_planner.py: analyze_weather_node                                    *)
(***************************************************************************)
\* what the structured weather chain can produce: a raised error (LLM call
\* or output parsing) or a parsed WeatherAnalysis
WeatherLLMResults ==
  {Raise("LLM error")} \cup
  {Return([is_favorable |-> f, summary |-> "summary"]) : f \in BOOLEAN}

\* variant: the chain is invoked without looking at weather_data first
analyze_weather_node_unguarded(s, llm) ==
  IF ~llm.exc
    THEN NodeReturn([s EXCEPT !.weather_favorable = llm.val.is_favorable,
                              !.weather_analysis = llm.val.summary,
                              !.messages = Append(@, Msg("Weather analysis", <<llm.val.summary>>)),
                              !.current_step = "weather_analyzed"],
                    {"llm_weather"})
    ELSE NodeReturn([s EXCEPT !.weather_favorable = TRUE,
                              !.weather_analysis = "Could not analyze weather, proceeding with planning.",
                              !.current_step = "weather_analyzed"],
                    {"llm_weather", "llm_weather failed"})

\* variant: a failed analysis is taken as unfavorable weather
analyze_weather_node_fail_closed(s, llm) ==
  IF s.weather_data = None \/ s.weather_data.data \in {"None", "{}"}
    THEN NodeReturn([s EXCEPT !.weather_favorable = TRUE,
                              !.weather_analysis = "Weather data unavailable, proceeding with planning."],
                    {})
  ELSE IF ~llm.exc
    THEN NodeReturn([s EXCEPT !.weather_favorable = llm.val.is_favorable,
                              !.weather_analysis = llm.val.summary,
                              !.messages = Append(@, Msg("Weather analysis", <<llm.val.summary>>)),
                              !.current_step = "weather_analyzed"],
                    {"llm_weather"})
    ELSE NodeReturn([s EXCEPT !.weather_favorable = FALSE,
                              !.weather_analysis = "Could not analyze weather, proceeding with planning.",
                              !.current_step = "weather_analyzed"],
                    {"llm_weather", "llm_weather failed"})

analyze_weather_node(s, llm) ==
  IF s.weather_data = None \/ s.weather_data.data \in {"None", "{}"}
    THEN NodeReturn([s EXCEPT !.weather_favorable = TRUE,
                              !.weather_analysis = "Weather data unavailable, proceeding with planning."],
                    {})
  ELSE IF ~llm.exc
    THEN NodeReturn([s EXCEPT !.weather_favorable = llm.val.is_favorable,
                              !.weather_analysis = llm.val.summary,
                              !.messages = Append(@, Msg("Weather analysis", <<llm.val.summary>>)),
                              !.current_step = "weather_analyzed"],
                    {"llm_weather"})
    ELSE NodeReturn([s EXCEPT !.weather_favorable = TRUE,
                              !.weather_analysis = "Could not analyze weather, proceeding with planning.",
                              !.current_step = "weather_analyzed"],
                    {"llm_weather", "llm_weather failed"})

(***************************************************************************)
(* llm_planner.py: suggest_alternates_node                                 *)
(***************************************************************************)
\* city names an LLM may answer with: lower case as asked for, or not
CityNames == {"goa", "Goa"}
LowerCase == {"goa"}

\* what the alternates chain can produce: a raised error, or a parsed
\* AlternateDestinations whose destinations is any list of strings
AlternatesLLMResults ==
  {Raise("LLM error")} \cup
  {Return([destinations |-> d]) : d \in SeqsUpTo(CityNames, MaxAlternates)}

\* variant: the first suggestion replaces the destination of the record
suggest_alternates_node_replans(s, llm) ==
  LET s1 == IF ~llm.exc
              THEN [s EXCEPT !.alternate_destinations = llm.val.destinations,
                             !.destination = IF llm.val.destinations # <<>>
                                               THEN llm.val.destinations[1] ELSE @,
                             !.messages = Append(@, Msg("Suggested alternates", llm.val.destinations))]
              ELSE [s EXCEPT !.alternate_destinations = <<>>]
  IN  NodeReturn([s1 EXCEPT !.needs_replanning = TRUE,
                            !.current_step = "alternates_suggested"],
                 {"llm_alternates"} \cup (IF llm.exc THEN {"llm_alternates failed"} ELSE {}))

\* variant: needs_replanning is set only after a successful suggestion
suggest_alternates_node_replanning_on_success(s, llm) ==
  LET s1 == IF ~llm.exc
              THEN [s EXCEPT !.alternate_destinations = llm.val.destinations,
                             !.messages = Append(@, Msg("Suggested alternates", llm.val.destinations)),
                             !.needs_replanning = TRUE]
              ELSE [s EXCEPT !.alternate_destinations = <<>>]
  IN  NodeReturn([s1 EXCEPT !.current_step = "alternates_suggested"],
                 {"llm_alternates"} \cup (IF llm.exc THEN {"llm_alternates failed"} ELSE {}))

suggest_alternates_node(s, llm) ==
  LET s1 == IF ~llm.exc
              THEN [s EXCEPT !.alternate_destinations = llm.val.destinations,
                             !.messages = Append(@, Msg("Suggested alternates", llm.val.destinations))]
              ELSE [s EXCEPT !.alternate_destinations = <<>>]
  IN  NodeReturn([s1 EXCEPT !.needs_replanning = TRUE,
                            !.current_step = "alternates_suggested"],
                 {"llm_alternates"} \cup (IF llm.exc THEN {"llm_alternates failed"} ELSE {}))

(***************************************************************************)
(* modules/api/amadeus.py                                                  *)
(***************************************************************************)
\* what the token request can produce: a caught request failure or a token
TokenResponses ==
  {[error |-> "RequestException"], [access_token |-> "tok", expires_in |-> ExpiresIn]}

\* token_cache as AmadeusClient.__init__ sets it
EmptyTokenCache == [access_token |-> "None", expires_at |-> 0]

\* variant: the cached token is used up to the moment it expires
get_valid_token_no_buffer(cache, now, http) ==
  IF cache.access_token # "None" /\ now < cache.expires_at
    THEN [val |-> cache.access_token, cache |-> cache, fetched |-> FALSE]
  ELSE IF "error" \notin DOMAIN http
    THEN [val |-> http.access_token,
          cache |-> [access_token |-> http.access_token, expires_at |-> now + http.expires_in],
          fetched |-> TRUE]
    ELSE [val |-> "None", cache |-> EmptyTokenCache, fetched |-> TRUE]

\* AmadeusClient.get_valid_token at time now; http is the outcome of the
\* token request (used only if one is sent)
get_valid_token(cache, now, http) ==
  IF cache.access_token # "None" /\ now < cache.expires_at - TOKEN_BUFFER
    THEN [val |-> cache.access_token, cache |-> cache, fetched |-> FALSE]
  ELSE IF "error" \notin DOMAIN http
    THEN [val |-> http.access_token,
          cache |-> [access_token |-> http.access_token, expires_at |-> now + http.expires_in],
          fetched |-> TRUE]
    ELSE [val |-> "None", cache |-> EmptyTokenCache, fetched |-> TRUE]

\* what the airport request can produce: a caught request failure, a body
\* whose data list is empty, a first entry without iataCode, or a code
AirportResponses == {"RequestException", "empty data", "no iataCode", "BLR"}

\* find_nearest_airport sends its airport request: the geocoding lookup
\* gave coordinates and the cache holds a token
airport_request_sent(cache, geo) == geo = "ok" /\ cache.access_token # "None"

\* AmadeusClient.find_nearest_airport(location, specific_get='iataCode')
find_nearest_airport(location, cache, geo, http) ==
  IF geo = "error" THEN Raise("Error getting location")
  ELSE IF cache.access_token = "None" THEN Return("None")
  ELSE IF http = "RequestException" THEN Return("None")
  ELSE IF http = "empty data" THEN Raise("IndexError")
  ELSE IF http = "no iataCode" THEN Return("N/A")
  ELSE Return(http)

(***************************************************************************)
(* Search payloads                                                         *)
(***************************************************************************)
\* an option without a price (or a property without a nightly rate)
NoPrice == -1
\* float('inf') as a sort key
Inf == MaxPrice + 1

\* a search payload: an empty JSON object, a body of an unexpected shape,
\* or a body with a list of options, each a price or NoPrice
Payloads(n) ==
  {[empty |-> TRUE], [malformed |-> TRUE]} \cup
  {[options |-> o] : o \in SeqsUpTo({NoPrice} \cup (1..MaxPrice), n)}

(***************************************************************************)
(* modules/api/google_flights.py                                           *)
(***************************************************************************)
\* what the flight request can produce: a caught failure (request error,
\* undecodable body, body with an "error" key) or a decoded body
FlightResponses(n) ==
  {[error |-> "RequestException"], [error |-> "JSONDecodeError"], [error |-> "SerpApi Error"]}
    \cup Payloads(n)

\* variant: a body with an "error" key is returned like any other body
get_flight_data_returns_body(departure_id, arrival_id, outbound_date, return_date, http) ==
  IF "error" \in DOMAIN http
    THEN IF http.error = "SerpApi Error" THEN Return([options |-> <<>>]) ELSE Return(None)
    ELSE Return(http)

\* SerpApiFlightClient.get_flight_data
get_flight_data(departure_id, arrival_id, outbound_date, return_date, http) ==
  IF "error" \in DOMAIN http THEN Return(None) ELSE Return(http)

(***************************************************************************)
(* modules/api/google_hotels.py                                            *)
(***************************************************************************)
\* datetime.strptime(x, "%Y-%m-%d"): x must be a str (here a day number);
\* a date object raises TypeError
strptime(x) == IF "date" \in DOMAIN x THEN Raise("TypeError") ELSE Return([date |-> x.str])

HotelResponses(n) ==
  {[error |-> "RequestException"], [error |-> "ValueError"]} \cup Payloads(n)

\* SerpApiHotelClient.get_hotel_data
get_hotel_data(query, check_in, check_out, adults, http) ==
  LET check_in_obj == strptime(check_in)
      check_out_obj == strptime(check_out)
  IN  IF check_in_obj.exc THEN Raise(check_in_obj.err)
      ELSE IF check_out_obj.exc THEN Raise(check_out_obj.err)
      ELSE IF "error" \in DOMAIN http THEN Return(None)
      ELSE Return(http)

(***************************************************************************)
(* modules/api/tripadvisor.py                                              *)
(***************************************************************************)
AttractionResponses ==
  {[error |-> "HTTPError"], [error |-> "RequestException"], [error |-> "JSONDecodeError"],
   [empty |-> TRUE], [results |-> <<"temple">>]}

\* TripadvisorClient.get_things_to_do
get_things_to_do(query, http) ==
  IF "error" \in DOMAIN http THEN Return(None) ELSE Return(http)

(***************************************************************************)
(* llm_planner.py: search_flights_node                                     *)
(***************************************************************************)
search_flights_node(s, cache, geo_dep, air_dep, geo_arr, air_arr, http) ==
  LET dep_iata == find_nearest_airport(s.departure, cache, geo_dep, air_dep)
      arr_iata == find_nearest_airport(s.destination, cache, geo_arr, air_arr)
      flight_data == get_flight_data(dep_iata.val, arr_iata.val, s.start_date, s.end_date, http)
      failed(e, calls) ==
        NodeReturn([s EXCEPT !.flights = None,
                             !.messages = Append(@, Msg("Flight search failed", <<e>>)),
                             !.current_step = "flights_searched"], calls)
      lookup(geo, air) ==
        {"geocoding"}
          \cup (IF geo = "error" THEN {"geocoding failed"} ELSE {})
          \cup (IF geo = "ok" /\ cache.access_token # "None" THEN {"airport"} ELSE {})
          \cup (IF geo = "ok" /\ (cache.access_token = "None"
                                    \/ air \in {"RequestException", "empty data"})
                 THEN {"airport failed"} ELSE {})
      lookups == lookup(geo_dep, air_dep) \cup lookup(geo_arr, air_arr)
      search == {"flight_search"}
                  \cup (IF "error" \in DOMAIN http THEN {"flight_search failed"} ELSE {})
  IN  IF dep_iata.exc THEN failed(dep_iata.err, lookup(geo_dep, air_dep))
      ELSE IF arr_iata.exc THEN failed(arr_iata.err, lookups)
      ELSE IF flight_data.exc THEN failed(flight_data.err, lookups \cup search)
      ELSE NodeReturn([s EXCEPT !.flights = flight_data.val,
                                !.messages = Append(@, Msg("Found flights", <<dep_iata.val, arr_iata.val>>)),
                                !.current_step = "flights_searched"],
                      lookups \cup search)

(***************************************************************************)
(* llm_planner.py: search_hotels_node                                      *)
(***************************************************************************)
search_hotels_node(s, http) ==
  LET query == <<s.travel_type, "hotels in", s.destination>>
      check_in == strptime([str |-> s.start_date])
      check_out == strptime([str |-> s.end_date])
      hotel_data == get_hotel_data(query, check_in.val, check_out.val, s.adults, http)
      failed(e, calls) ==
        NodeReturn([s EXCEPT !.hotels = None,
                             !.messages = Append(@, Msg("Hotel search failed", <<e>>)),
                             !.current_step = "hotels_searched"], calls)
  IN  IF check_in.exc THEN failed(check_in.err, {})
      ELSE IF check_out.exc THEN failed(check_out.err, {})
      ELSE IF hotel_data.exc THEN failed(hotel_data.err, {"hotel_search failed"})
      ELSE NodeReturn([s EXCEPT !.hotels = hotel_data.val,
                                !.messages = Append(@, Msg("Found hotels", <<s.destination>>)),
                                !.current_step = "hotels_searched"],
                      {"hotel_search"}
                        \cup (IF "error" \in DOMAIN http THEN {"hotel_search failed"} ELSE {}))

(***************************************************************************)
(* llm_planner.py: search_attractions_node                                 *)
(***************************************************************************)
search_attractions_node(s, http) ==
  LET attractions_data == get_things_to_do(s.destination, http)
      calls == {"attraction_search"}
                 \cup (IF "error" \in DOMAIN http THEN {"attraction_search failed"} ELSE {})
  IN  IF attractions_data.exc
        THEN NodeReturn([s EXCEPT !.attractions = None,
                                  !.messages = Append(@, Msg("Attractions search failed",
                                                             <<attractions_data.err>>)),
                                  !.current_step = "attractions_searched"],
                        calls)
        ELSE NodeReturn([s EXCEPT !.attractions = attractions_data.val,
                                  !.messages = Append(@, Msg("Found attractions", <<s.destination>>)),
                                  !.current_step = "attractions_searched"],
                        calls)

(***************************************************************************)
(* llm_planner.py: check_budget_node                                       *)
(***************************************************************************)
\* x.get('price', float('inf')), the key of min()
price_key(x) == IF x = NoPrice THEN Inf ELSE x
\* x.get('price', 0)
price_get(x) == IF x = NoPrice THEN 0 ELSE x

\* Python min(options, key=price_key): the first option with the least key
cheapest(options) ==
  options[CHOOSE i \in 1..Len(options) :
            /\ \A j \in 1..Len(options) : price_key(options[i]) <= price_key(options[j])
            /\ \A j \in 1..(i - 1) : price_key(options[j]) > price_key(options[i])]

\* 'exceeds' in a
is_exceeds(note) == note.text \in {"Flight cost exceeds budget", "Hotel cost exceeds budget"}

\* the flight half: nothing is recorded for a falsy payload, an empty list
\* of options, or a payload whose shape makes the lookups raise
flight_notes(s) ==
  IF ~Truthy(s.flights) \/ "malformed" \in DOMAIN s.flights THEN <<>>
  ELSE IF s.flights.options = <<>> THEN <<>>
  ELSE LET flight_price == price_get(cheapest(s.flights.options))
       IN  IF flight_price > s.budget_flight
             THEN <<Msg("Flight cost exceeds budget", <<flight_price, s.budget_flight>>)>>
             ELSE <<Msg("Flights within budget", <<flight_price>>)>>

\* variant: the total for the stay is compared with the nightly budget
hotel_notes_total(s) ==
  IF ~Truthy(s.hotels) \/ "malformed" \in DOMAIN s.hotels THEN <<>>
  ELSE IF s.hotels.options = <<>> THEN <<>>
  ELSE LET hotel_price == price_get(cheapest(s.hotels.options))
           total_hotel == hotel_price * s.duration
       IN  IF total_hotel > s.budget_hotel
             THEN <<Msg("Hotel cost exceeds budget", <<hotel_price, s.budget_hotel>>)>>
             ELSE <<Msg("Hotels within budget", <<hotel_price>>)>>

\* the hotel half: the nightly rate is compared, the total only accumulated
hotel_notes(s) ==
  IF ~Truthy(s.hotels) \/ "malformed" \in DOMAIN s.hotels THEN <<>>
  ELSE IF s.hotels.options = <<>> THEN <<>>
  ELSE LET hotel_price == price_get(cheapest(s.hotels.options))
           total_hotel == hotel_price * s.duration
       IN  IF hotel_price > s.budget_hotel
             THEN <<Msg("Hotel cost exceeds budget", <<hotel_price, s.budget_hotel>>)>>
             ELSE <<Msg("Hotels within budget", <<hotel_price>>)>>

\* variant: the budget message replaces the trace log
check_budget_node_overwrites(s) ==
  LET budget_analysis == flight_notes(s) \o hotel_notes(s)
      budget_feasible == Cardinality({i \in 1..Len(budget_analysis) : is_exceeds(budget_analysis[i])}) = 0
      budget_notes == IF budget_analysis # <<>> THEN budget_analysis
                      ELSE <<Msg("Budget analysis pending", <<>>)>>
  IN  NodeReturn([s EXCEPT !.budget_feasible = budget_feasible,
                           !.budget_notes = budget_notes,
                           !.messages = <<Msg("Budget check", budget_notes)>>,
                           !.current_step = "budget_checked"],
                 {})

\* variant: the hotel half is analysed before the flight half
check_budget_node_hotel_first(s) ==
  LET budget_analysis == hotel_notes(s) \o flight_notes(s)
      budget_feasible == Cardinality({i \in 1..Len(budget_analysis) : is_exceeds(budget_analysis[i])}) = 0
      budget_notes == IF budget_analysis # <<>> THEN budget_analysis
                      ELSE <<Msg("Budget analysis pending", <<>>)>>
  IN  NodeReturn([s EXCEPT !.budget_feasible = budget_feasible,
                           !.budget_notes = budget_notes,
                           !.messages = Append(@, Msg("Budget check", budget_notes)),
                           !.current_step = "budget_checked"],
                 {})

\* variant: one try block around both halves, so a malformed flights
\* payload also skips the hotel half
check_budget_node_single_try(s) ==
  LET budget_analysis == IF Truthy(s.flights) /\ "malformed" \in DOMAIN s.flights
                           THEN <<>>
                           ELSE flight_notes(s) \o hotel_notes(s)
      budget_feasible == Cardinality({i \in 1..Len(budget_analysis) : is_exceeds(budget_analysis[i])}) = 0
      budget_notes == IF budget_analysis # <<>> THEN budget_analysis
                      ELSE <<Msg("Budget analysis pending", <<>>)>>
  IN  NodeReturn([s EXCEPT !.budget_feasible = budget_feasible,
                           !.budget_notes = budget_notes,
                           !.messages = Append(@, Msg("Budget check", budget_notes)),
                           !.current_step = "budget_checked"],
                 {})

check_budget_node(s) ==
  LET budget_analysis == flight_notes(s) \o hotel_notes(s)
      budget_feasible == Cardinality({i \in 1..Len(budget_analysis) : is_exceeds(budget_analysis[i])}) = 0
      budget_notes == IF budget_analysis # <<>> THEN budget_analysis
                      ELSE <<Msg("Budget analysis pending", <<>>)>>
  IN  NodeReturn([s EXCEPT !.budget_feasible = budget_feasible,
                           !.budget_notes = budget_notes,
                           !.messages = Append(@, Msg("Budget check", budget_notes)),
                           !.current_step = "budget_checked"],
                 {})

(***************************************************************************)
(* llm_planner.py: generate_itinerary_node                                 *)
(***************************************************************************)
\* what the itinerary chain can produce: a raised error, or a message whose
\* content is the model's text, which may be empty
ItineraryLLMResults == {Raise("LLM error"), Return(""), Return("# Day 1")}

\* variant: the chain is invoked outside any try block
generate_itinerary_node_no_try(s, llm) ==
  IF ~llm.exc
    THEN NodeReturn([s EXCEPT !.itinerary_markdown = llm.val,
                              !.messages = Append(@, Msg("Itinerary generated successfully", <<>>)),
                              !.current_step = "itinerary_generated"],
                    {"llm_itinerary"})
    ELSE NodeRaise(s, {"llm_itinerary", "llm_itinerary failed"})

\* variant: a failed chain leaves the error markdown but no trace message
generate_itinerary_node_silent_failure(s, llm) ==
  IF ~llm.exc
    THEN NodeReturn([s EXCEPT !.itinerary_markdown = llm.val,
                              !.messages = Append(@, Msg("Itinerary generated successfully", <<>>)),
                              !.current_step = "itinerary_generated"],
                    {"llm_itinerary"})
    ELSE NodeReturn([s EXCEPT !.itinerary_markdown = "# Error generating itinerary",
                              !.current_step = "itinerary_generated"],
                    {"llm_itinerary", "llm_itinerary failed"})

generate_itinerary_node(s, llm) ==
  IF ~llm.exc
    THEN NodeReturn([s EXCEPT !.itinerary_markdown = llm.val,
                              !.messages = Append(@, Msg("Itinerary generated successfully", <<>>)),
                              !.current_step = "itinerary_generated"],
                    {"llm_itinerary"})
    ELSE NodeReturn([s EXCEPT !.itinerary_markdown = "# Error generating itinerary",
                              !.messages = Append(@, Msg("Itinerary generation failed", <<llm.err>>)),
                              !.current_step = "itinerary_generated"],
                    {"llm_itinerary", "llm_itinerary failed"})

(***************************************************************************)
(* llm_planner.py: decision functions and _build_graph                     *)
(***************************************************************************)
\* variant: the weather decision always proceeds
should_suggest_alternates_always_proceed(s) == "proceed_to_search"

should_suggest_alternates(s) ==
  IF s.weather_favorable THEN "proceed_to_search" ELSE "suggest_alternates"

should_proceed_with_plan(s) == "generate_itinerary"

\* variant: the edge out of search_hotels skips the attraction search
edge_skip_attractions(node, s) ==
  CASE node = "fetch_weather" -> "analyze_weather"
    [] node = "analyze_weather" ->
         (IF should_suggest_alternates(s) = "suggest_alternates"
            THEN "suggest_alternates" ELSE "search_flights")
    [] node = "suggest_alternates" -> "END"
    [] node = "search_flights" -> "search_hotels"
    [] node = "search_hotels" -> "check_budget"
    [] node = "search_attractions" -> "check_budget"
    [] node = "check_budget" -> "generate_itinerary"
    [] node = "generate_itinerary" -> "END"

\* variant: suggest_alternates leads to a replanning step that does not exist
edge_replan(node, s) ==
  CASE node = "fetch_weather" -> "analyze_weather"
    [] node = "analyze_weather" ->
         (IF should_suggest_alternates(s) = "suggest_alternates"
            THEN "suggest_alternates" ELSE "search_flights")
    [] node = "suggest_alternates" -> "replan"
    [] node = "search_flights" -> "search_hotels"
    [] node = "search_hotels" -> "search_attractions"
    [] node = "search_attractions" -> "check_budget"
    [] node = "check_budget" -> "generate_itinerary"
    [] node = "generate_itinerary" -> "END"

\* the edges _build_graph adds: the node that runs after node returns s
edge(node, s) ==
  CASE node = "fetch_weather" -> "analyze_weather"
    [] node = "analyze_weather" ->
         (IF should_suggest_alternates(s) = "suggest_alternates"
            THEN "suggest_alternates" ELSE "search_flights")
    [] node = "suggest_alternates" -> "END"
    [] node = "search_flights" -> "search_hotels"
    [] node = "search_hotels" -> "search_attractions"
    [] node = "search_attractions" -> "check_budget"
    [] node = "check_budget" ->
         (IF should_proceed_with_plan(s) = "generate_itinerary"
            THEN "generate_itinerary" ELSE "END")
    [] node = "generate_itinerary" -> "END"

\* workflow.set_entry_point
entry_point == "fetch_weather"

(***************************************************************************)
(* llm_planner.py: plan_trip                                               *)
(***************************************************************************)
\* variant: success follows needs_replanning, flights and hotels are swapped
plan_trip_result_swapped(final_state) ==
  [success |-> final_state.needs_replanning,
   itinerary_markdown |-> final_state.itinerary_markdown,
   weather_favorable |-> final_state.weather_favorable,
   alternate_destinations |-> final_state.alternate_destinations,
   budget_feasible |-> final_state.budget_feasible,
   budget_notes |-> final_state.budget_notes,
   messages |-> final_state.messages,
   raw_data |-> [weather |-> final_state.weather_data,
                 flights |-> final_state.hotels,
                 hotels |-> final_state.flights,
                 attractions |-> final_state.attractions]]

\* variant: success is judged by the presence of an itinerary
plan_trip_result_success_by_itinerary(final_state) ==
  [success |-> final_state.itinerary_markdown # "",
   itinerary_markdown |-> final_state.itinerary_markdown,
   weather_favorable |-> final_state.weather_favorable,
   alternate_destinations |-> final_state.alternate_destinations,
   budget_feasible |-> final_state.budget_feasible,
   budget_notes |-> final_state.budget_notes,
   messages |-> final_state.messages,
   raw_data |-> [weather |-> final_state.weather_data,
                 flights |-> final_state.flights,
                 hotels |-> final_state.hotels,
                 attractions |-> final_state.attractions]]

\* the dict plan_trip returns, built from the final state of the graph
plan_trip_result(final_state) ==
  [success |-> ~final_state.needs_replanning,
   itinerary_markdown |-> final_state.itinerary_markdown,
   weather_favorable |-> final_state.weather_favorable,
   alternate_destinations |-> final_state.alternate_destinations,
   budget_feasible |-> final_state.budget_feasible,
   budget_notes |-> final_state.budget_notes,
   messages |-> final_state.messages,
   raw_data |-> [weather |-> final_state.weather_data,
                 flights |-> final_state.flights,
                 hotels |-> final_state.hotels,
                 attractions |-> final_state.attractions]]

(***************************************************************************)
(* Construction: LLMTripPlanner.__init__ and the client constructors       *)
(***************************************************************************)
\* what config.get(key) can be: no value (None or ""), a value the service
\* rejects, a value the service accepts
Credentials == {"missing", "invalid", "valid"}

\* the config dicts a caller can hand to LLMTripPlanner
Configs ==
  [GEMINI_API_KEY : Credentials,
   OPENWEATHER_API_KEY : Credentials,
   SERPAPI_KEY : Credentials,
   TRIPADVISOR_API_KEY : Credentials,
   AMADEUS_API_KEY : Credentials,
   AMADEUS_API_SECRET : Credentials]

\* a config whose every entry is accepted by its service
ValidConfig ==
  [GEMINI_API_KEY |-> "valid",
   OPENWEATHER_API_KEY |-> "valid",
   SERPAPI_KEY |-> "valid",
   TRIPADVISOR_API_KEY |-> "valid",
   AMADEUS_API_KEY |-> "valid",
   AMADEUS_API_SECRET |-> "valid"]

\* ChatGoogleGenerativeAI(google_api_key=...): a library constructor that
\* may or may not reject a key that is not usable
LLMConstructions(google_api_key) ==
  IF google_api_key = "valid" THEN {"ok"} ELSE {"ok", "error"}

\* GeocodingClient.__init__ stores the key
GeocodingClient_init(api_key) == Return([api_key |-> api_key])

\* WeatherClient.__init__ stores the key and builds a GeocodingClient
WeatherClient_init(openweather_api_key, api_key) ==
  Return([api_key |-> api_key,
          geocoding_client |-> GeocodingClient_init(openweather_api_key).val])

\* SerpApiFlightClient.__init__
SerpApiFlightClient_init(api_key) ==
  IF api_key = "missing" THEN Raise("API key cannot be empty.")
  ELSE Return([api_key |-> api_key])

\* SerpApiHotelClient.__init__
SerpApiHotelClient_init(api_key) ==
  IF api_key = "missing" THEN Raise("API key cannot be empty.")
  ELSE Return([api_key |-> api_key])

\* TripadvisorClient.__init__
TripadvisorClient_init(api_key) ==
  IF api_key = "missing" THEN Raise("API key cannot be empty.")
  ELSE Return([api_key |-> api_key])

\* what the token request can produce for a client id and secret: the
\* endpoint issues a token only to a pair it accepts
TokenResponsesFor(api_key, api_secret) ==
  IF api_key = "valid" /\ api_secret = "valid"
    THEN TokenResponses
    ELSE {[error |-> "RequestException"]}

\* AmadeusClient.__init__: the empty cache, then one get_valid_token call
\* whose result is dropped
AmadeusClient_init(api_key, api_secret, open_weather_api_key, http) ==
  Return([api_key |-> api_key,
          api_secret |-> api_secret,
          geocoding_client |-> GeocodingClient_init(open_weather_api_key).val,
          token_cache |-> get_valid_token(EmptyTokenCache, 0, http).cache])

\* LLMTripPlanner.__init__(config); llm is what the LLM constructor does and
\* http the outcome of the token request
LLMTripPlanner_init(cfg, llm, http) ==
  IF llm = "error" THEN Raise("llm constructor error")
  ELSE IF SerpApiFlightClient_init(cfg.SERPAPI_KEY).exc
    THEN SerpApiFlightClient_init(cfg.SERPAPI_KEY)
  ELSE IF SerpApiHotelClient_init(cfg.SERPAPI_KEY).exc
    THEN SerpApiHotelClient_init(cfg.SERPAPI_KEY)
  ELSE IF TripadvisorClient_init(cfg.TRIPADVISOR_API_KEY).exc
    THEN TripadvisorClient_init(cfg.TRIPADVISOR_API_KEY)
  ELSE Return([weather_client |->
                 WeatherClient_init(cfg.OPENWEATHER_API_KEY, cfg.OPENWEATHER_API_KEY).val,
               flight_client |-> SerpApiFlightClient_init(cfg.SERPAPI_KEY).val,
               hotel_client |-> SerpApiHotelClient_init(cfg.SERPAPI_KEY).val,
               tripadvisor_client |-> TripadvisorClient_init(cfg.TRIPADVISOR_API_KEY).val,
               amadeus_client |->
                 AmadeusClient_init(cfg.AMADEUS_API_KEY, cfg.AMADEUS_API_SECRET,
                                    cfg.OPENWEATHER_API_KEY, http).val])

(***************************************************************************)
(* The state machine: one planner object, one plan_trip run                *)
(***************************************************************************)
\* the trip_details the presentation layer submits (app.py); dates are day
\* numbers standing for their YYYY-MM-DD strings
Requests ==
  [destination : {"bangkok"},
   departure : {"bangalore"},
   start_date : {Today - 1, Today, Today + FORECAST_DAYS + 1},
   end_date : {Today + 1, Today + FORECAST_DAYS + 2},
   duration : {2},
   adults : {2},
   budget_flight : {2},
   budget_hotel : {2},
   travel_type : {"Sightseeing"}]

\* no planning record exists before plan_trip builds one
NoState == [current_step |-> "no run"]

\* LLMTripPlanner.__init__ has returned: the Amadeus client has made its one
\* get_valid_token call, no run has started
Init ==
  /\ trip_details \in Requests
  /\ state = NoState
  /\ pc = "idle"
  /\ executed = <<>>
  /\ invoked = {}
  /\ outcome = None
  /\ \E http \in TokenResponses : token_cache = get_valid_token(EmptyTokenCache, 0, http).cache
  /\ propagated = FALSE
  /\ config = ValidConfig
  /\ runs = 0
  /\ time = 0

\* variant: the messages list of the run before is carried into the new record
PlanTrip_keeps_messages ==
  /\ pc = "idle"
  /\ state' = [InitialState(trip_details) EXCEPT
                 !.messages = IF "messages" \in DOMAIN state THEN state.messages ELSE @]
  /\ pc' = entry_point
  /\ executed' = <<>>
  /\ invoked' = {}
  /\ outcome' = None
  /\ runs' = runs + 1
  /\ UNCHANGED <<trip_details, token_cache, propagated, config, time>>

\* plan_trip, up to graph.invoke: the initial state enters the entry point
PlanTrip ==
  /\ pc = "idle"
  /\ state' = InitialState(trip_details)
  /\ pc' = entry_point
  /\ executed' = <<>>
  /\ invoked' = {}
  /\ outcome' = None
  /\ runs' = runs + 1
  /\ UNCHANGED <<trip_details, token_cache, propagated, config, time>>

\* graph.invoke runs node: its result becomes the state and the edges out of
\* node choose what runs next; an exception escaping the node ends the run
RunNode(node, res) ==
  /\ pc = node
  /\ executed' = Append(executed, node)
  /\ invoked' = invoked \cup res.calls
  /\ state' = res.state
  /\ IF res.exc
       THEN pc' = "raised" /\ propagated' = TRUE
       ELSE pc' = edge(node, res.state) /\ propagated' = propagated
  /\ UNCHANGED <<trip_details, outcome, token_cache, config, runs, time>>

FetchWeather ==
  /\ pc = "fetch_weather"
  /\ \E geo \in {"ok", "error"}, http \in ForecastResponses :
       RunNode("fetch_weather", fetch_weather_node(state, Today, geo, http))

AnalyzeWeather ==
  /\ pc = "analyze_weather"
  /\ \E llm \in WeatherLLMResults :
       RunNode("analyze_weather", analyze_weather_node(state, llm))

SuggestAlternates ==
  /\ pc = "suggest_alternates"
  /\ \E llm \in AlternatesLLMResults :
       RunNode("suggest_alternates", suggest_alternates_node(state, llm))

SearchFlights ==
  /\ pc = "search_flights"
  /\ \E geo_dep \in {"ok", "error"}, geo_arr \in {"ok", "error"},
        air_dep \in AirportResponses, air_arr \in AirportResponses,
        http \in FlightResponses(MaxRunOptions) :
       RunNode("search_flights",
               search_flights_node(state, token_cache, geo_dep, air_dep, geo_arr, air_arr, http))

SearchHotels ==
  /\ pc = "search_hotels"
  /\ \E http \in HotelResponses(MaxRunOptions) :
       RunNode("search_hotels", search_hotels_node(state, http))

SearchAttractions ==
  /\ pc = "search_attractions"
  /\ \E http \in AttractionResponses :
       RunNode("search_attractions", search_attractions_node(state, http))

CheckBudget ==
  /\ pc = "check_budget"
  /\ RunNode("check_budget", check_budget_node(state))

GenerateItinerary ==
  /\ pc = "generate_itinerary"
  /\ \E llm \in ItineraryLLMResults :
       RunNode("generate_itinerary", generate_itinerary_node(state, llm))

\* plan_trip, after graph.invoke has returned final_state
ReturnResult ==
  /\ pc = "END"
  /\ outcome' = plan_trip_result(state)
  /\ pc' = "returned"
  /\ UNCHANGED <<trip_details, state, executed, invoked, token_cache, propagated,
                 config, runs, time>>

Next ==
  \/ PlanTrip
  \/ FetchWeather
  \/ AnalyzeWeather
  \/ SuggestAlternates
  \/ SearchFlights
  \/ SearchHotels
  \/ SearchAttractions
  \/ CheckBudget
  \/ GenerateItinerary
  \/ ReturnResult

Spec == Init /\ [][Next]_vars

\* every blocking call returns or fails, so the step that is due is taken
FairSpec == Spec /\ WF_vars(Next)

(***************************************************************************)
(* Several plan_trip calls on the one planner object                       *)
(***************************************************************************)
\* the caller calls planner.plan_trip again (the second tab of
\* display_itinerary_with_alternatives, or a rerun of the page) with the
\* trip_details it then holds; the dict of the call before is what it was
NextCall ==
  /\ pc \in {"returned", "raised"}
  /\ runs < MaxRuns
  /\ pc' = "idle"
  /\ trip_details' \in Requests
  /\ UNCHANGED <<state, executed, invoked, outcome, token_cache, propagated, config, runs, time>>

NextRuns ==
  \/ Next
  \/ NextCall

SpecRuns == Init /\ [][NextRuns]_vars

(***************************************************************************)
(* The user picks an alternate destination                                 *)
(***************************************************************************)
\* variant: the chosen alternate is written to departure
PickAlternate_sets_departure ==
  /\ pc = "returned"
  /\ runs < MaxRuns
  /\ \E i \in 1..Len(outcome.alternate_destinations) :
       trip_details' = [trip_details EXCEPT !.departure = outcome.alternate_destinations[i]]
  /\ pc' = "idle"
  /\ UNCHANGED <<state, executed, invoked, outcome, token_cache, propagated, config, runs, time>>

\* display_itinerary_with_alternatives: the button of an alternate the run
\* has returned is clicked; a copy of trip_details with that destination
\* becomes the trip_details of the session and the page is run again
PickAlternate ==
  /\ pc = "returned"
  /\ runs < MaxRuns
  /\ \E i \in 1..Len(outcome.alternate_destinations) :
       trip_details' = [trip_details EXCEPT !.destination = outcome.alternate_destinations[i]]
  /\ pc' = "idle"
  /\ UNCHANGED <<state, executed, invoked, outcome, token_cache, propagated, config, runs, time>>

NextPick ==
  \/ Next
  \/ PickAlternate

SpecPick == Init /\ [][NextPick]_vars

(***************************************************************************)
(* LLMTripPlanner(config) on its own: any config a caller can hand over    *)
(***************************************************************************)
InitConstruct ==
  /\ trip_details \in Requests
  /\ state = NoState
  /\ pc = "constructing"
  /\ executed = <<>>
  /\ invoked = {}
  /\ outcome = None
  /\ token_cache = EmptyTokenCache
  /\ propagated = FALSE
  /\ config \in Configs
  /\ runs = 0
  /\ time = 0

\* get_planner: LLMTripPlanner(config) returns the planner or raises
Construct ==
  /\ pc = "constructing"
  /\ \E llm \in LLMConstructions(config.GEMINI_API_KEY),
        http \in TokenResponsesFor(config.AMADEUS_API_KEY, config.AMADEUS_API_SECRET) :
       LET planner == LLMTripPlanner_init(config, llm, http) IN
         IF planner.exc
           THEN pc' = "construction raised" /\ token_cache' = token_cache
           ELSE pc' = "idle" /\ token_cache' = planner.val.amadeus_client.token_cache
  /\ UNCHANGED <<trip_details, state, executed, invoked, outcome, propagated, config, runs, time>>

NextConstruct == Construct

SpecConstruct == InitConstruct /\ [][NextConstruct]_vars

(***************************************************************************)
(* fetch_forecast_data on its own: any date range a caller can ask for     *)
(***************************************************************************)
\* the dates a caller can ask for: from before today to beyond the horizon
ForecastDates == (Today - MaxDateOffset)..(Today + FORECAST_DAYS + MaxDateOffset)

InitForecast ==
  /\ trip_details \in
       [destination : {"bangkok"},
        departure : {"bangalore"},
        start_date : ForecastDates,
        end_date : ForecastDates,
        duration : {2},
        adults : {2},
        budget_flight : {2},
        budget_hotel : {2},
        travel_type : {"Sightseeing"}]
  /\ state = NoState
  /\ pc = "fetch_forecast_data"
  /\ executed = <<>>
  /\ invoked = {}
  /\ outcome = None
  /\ token_cache = EmptyTokenCache
  /\ propagated = FALSE
  /\ config = ValidConfig
  /\ runs = 0
  /\ time = 0

\* one call of weather_client.fetch_forecast_data; state keeps what the
\* geocoding lookup did and what the call gave
FetchForecast ==
  /\ pc = "fetch_forecast_data"
  /\ \E geo \in {"ok", "error"}, http \in ForecastResponses :
       LET result == fetch_forecast_data(trip_details.destination, trip_details.start_date,
                                         trip_details.end_date, Today, geo, http)
       IN  /\ state' = [geo |-> geo, result |-> result]
           /\ pc' = IF result.exc THEN "forecast raised" ELSE "forecast returned"
  /\ UNCHANGED <<trip_details, executed, invoked, outcome, token_cache, propagated,
                 config, runs, time>>

NextForecast == FetchForecast

SpecForecast == InitForecast /\ [][NextForecast]_vars

(***************************************************************************)
(* One AmadeusClient object over its lifetime                              *)
(***************************************************************************)
\* the seconds that pass between two calls on the client: up to the last
\* second a fresh token is served from the cache, the second after, the last
\* second of the token's life, and the second it expires
ClockSteps ==
  {ExpiresIn - TOKEN_BUFFER - 1, ExpiresIn - TOKEN_BUFFER, ExpiresIn - 1, ExpiresIn}

\* AmadeusClient.__init__ has returned at time 0
InitClient ==
  /\ trip_details \in Requests
  /\ state = NoState
  /\ pc = "client"
  /\ executed = <<>>
  /\ invoked = {}
  /\ outcome = None
  /\ \E http \in TokenResponses :
       token_cache = AmadeusClient_init("valid", "valid", "valid", http).val.token_cache
  /\ propagated = FALSE
  /\ config = ValidConfig
  /\ runs = 0
  /\ time = 0

\* time passes between calls
Tick ==
  /\ pc = "client"
  /\ \E d \in ClockSteps : time + d <= MaxClock /\ time' = time + d
  /\ UNCHANGED <<trip_details, state, pc, executed, invoked, outcome, token_cache,
                 propagated, config, runs>>

\* one call of get_valid_token; state keeps the cache and time it was called
\* with, the outcome of the token request and what the call gave
GetValidToken ==
  /\ pc = "client"
  /\ \E http \in TokenResponses :
       LET r == get_valid_token(token_cache, time, http)
       IN  /\ token_cache' = r.cache
           /\ state' = [call |-> "get_valid_token", before |-> token_cache, at |-> time,
                        http |-> http, val |-> r.val, fetched |-> r.fetched]
  /\ UNCHANGED <<trip_details, pc, executed, invoked, outcome, propagated, config, runs, time>>

\* one call of find_nearest_airport; state keeps the time of the call,
\* whether the airport request was sent, the token cache it was sent with
\* and what the call gave
FindNearestAirport ==
  /\ pc = "client"
  /\ \E loc \in {trip_details.departure, trip_details.destination},
        geo \in {"ok", "error"}, http \in AirportResponses :
       state' = [call |-> "find_nearest_airport", at |-> time,
                 sent |-> airport_request_sent(token_cache, geo),
                 token |-> token_cache,
                 result |-> find_nearest_airport(loc, token_cache, geo, http)]
  /\ UNCHANGED <<trip_details, pc, executed, invoked, outcome, token_cache, propagated,
                 config, runs, time>>

NextClient ==
  \/ Tick
  \/ GetValidToken
  \/ FindNearestAirport

SpecClient == InitClient /\ [][NextClient]_vars

(***************************************************************************)
(* check_budget_node on its own: any planning record that reaches it       *)
(***************************************************************************)
\* the flights and hotels fields check_budget_node can be handed
OptionalPayloads == {None} \cup Payloads(MaxOptions)

InitBudget ==
  /\ trip_details \in Requests
  /\ \E f \in OptionalPayloads, h \in OptionalPayloads :
       state = [InitialState(trip_details) EXCEPT !.flights = f, !.hotels = h]
  /\ pc = "check_budget"
  /\ executed = <<>>
  /\ invoked = {}
  /\ outcome = None
  /\ token_cache = EmptyTokenCache
  /\ propagated = FALSE
  /\ config = ValidConfig
  /\ runs = 1
  /\ time = 0

NextBudget == CheckBudget

SpecBudget == InitBudget /\ [][NextBudget]_vars

(***************************************************************************)
(* Properties                                                              *)
(***************************************************************************)
Range(seq) == {seq[i] : i \in 1..Len(seq)}

IsPrefix(a, b) == Len(a) <= Len(b) /\ SubSeq(b, 1, Len(a)) = a

UnfavorablePath == <<"fetch_weather", "analyze_weather", "suggest_alternates">>

FavorablePath ==
  <<"fetch_weather", "analyze_weather", "search_flights", "search_hotels",
    "search_attractions", "check_budget", "generate_itinerary">>

SearchSteps ==
  {"search_flights", "search_hotels", "search_attractions", "check_budget", "generate_itinerary"}

\* C1: a completed run ends with needs_replanning and an empty itinerary, or
\* with no replanning, a non-empty itinerary and no alternates.
C1_TerminalShapes ==
  pc = "returned" =>
    \/ state.needs_replanning /\ state.itinerary_markdown = ""
    \/ /\ ~state.needs_replanning
       /\ state.itinerary_markdown # ""
       /\ state.alternate_destinations = <<>>

\* weather_favorable is false once analyze_weather has run
AnalyzedUnfavorable ==
  /\ pc \notin {"idle", "fetch_weather", "analyze_weather"}
  /\ ~state.weather_favorable

\* C2: once the analysis leaves weather_favorable false, no search, budget or
\* itinerary step runs, only suggest_alternates is left to run, and the run
\* ends with needs_replanning true and an empty itinerary.
C2_UnfavorableSkipsSearch ==
  AnalyzedUnfavorable =>
    /\ Range(executed) \cap SearchSteps = {}
    /\ pc \in {"suggest_alternates", "END", "returned"}
    /\ pc \in {"END", "returned"} =>
         state.needs_replanning /\ state.itinerary_markdown = ""
    /\ pc = "returned" => ~outcome.success /\ outcome.itinerary_markdown = ""

C2_Witness ==
  /\ pc = "returned"
  /\ ~state.weather_favorable
  /\ executed = UnfavorablePath

\* fetch_weather has run and left no forecast: the client raised, or its
\* result carries no data
WeatherFetchFailed ==
  /\ pc \notin {"idle", "fetch_weather"}
  /\ \/ state.weather_data = None
     \/ state.weather_data.data = "None"

\* C3: after a failed weather fetch weather_favorable stays true, the weather
\* LLM chain is never invoked, the run never turns to suggest_alternates, and
\* a finished run has executed generate_itinerary.
C3_FetchFailureFailsOpen ==
  WeatherFetchFailed =>
    /\ state.weather_favorable
    /\ "llm_weather" \notin invoked
    /\ "suggest_alternates" \notin Range(executed) /\ pc # "suggest_alternates"
    /\ pc \in {"END", "returned"} => "generate_itinerary" \in Range(executed)

C3_Witness ==
  /\ pc = "returned"
  /\ state.weather_data # None
  /\ state.weather_data.data = "None"
  /\ state.weather_data.remarks = <<"No forecast data available">>
  /\ "generate_itinerary" \in Range(executed)

OutcomeFields ==
  {"success", "itinerary_markdown", "weather_favorable", "alternate_destinations",
   "budget_feasible", "budget_notes", "messages", "raw_data"}

\* C4: no exception escapes a run, and the dict plan_trip returns has every
\* field, raw_data with its four entries.
C4_NoExceptionEscapes ==
  /\ ~propagated
  /\ pc # "raised"
  /\ pc = "returned" =>
       /\ DOMAIN outcome = OutcomeFields
       /\ DOMAIN outcome.raw_data = {"weather", "flights", "hotels", "attractions"}

\* a run in which the weather fetch, the flight search, the hotel search, the
\* attraction search and the itinerary chain all failed
C4_Witness ==
  /\ pc = "returned"
  /\ state.weather_data = None
  /\ state.flights = None
  /\ state.hotels = None
  /\ state.attractions = None
  /\ state.itinerary_markdown = "# Error generating itinerary"

Priced(p) ==
  IF p # None /\ "options" \in DOMAIN p THEN Range(p.options) \ {NoPrice} ELSE {}

\* the least price among them
LeastPrice(p) == CHOOSE m \in Priced(p) : \A x \in Priced(p) : m <= x

FlightExceeds == Priced(state.flights) # {} /\ LeastPrice(state.flights) > state.budget_flight

HotelExceeds == Priced(state.hotels) # {} /\ LeastPrice(state.hotels) > state.budget_hotel

\* C6: after check_budget with flights and hotels both present,
\* budget_feasible is false exactly when the cheapest flight price is above
\* the flight budget or the cheapest nightly rate is above the hotel budget
\* (equal is within budget), and a flight above budget leaves an 'exceeds'
\* flight note.
C6_BudgetFeasible ==
  (pc = "generate_itinerary" /\ state.flights # None /\ state.hotels # None) =>
    /\ ~state.budget_feasible <=> (FlightExceeds \/ HotelExceeds)
    /\ FlightExceeds =>
         \E i \in 1..Len(state.budget_notes) :
           state.budget_notes[i].text = "Flight cost exceeds budget"

\* cheapest flight above budget while the cheapest nightly rate, equal to
\* the hotel budget, would exceed it only when multiplied by the nights
C6_Witness ==
  /\ pc = "generate_itinerary"
  /\ state.flights # None /\ state.hotels # None
  /\ FlightExceeds
  /\ Priced(state.hotels) # {} /\ LeastPrice(state.hotels) = state.budget_hotel
  /\ ~state.budget_feasible

\* C7: the steps run in the order of one of the two paths, each at most
\* once, and the run ends only after a whole path.
C7_FixedOrder ==
  /\ IsPrefix(executed, UnfavorablePath) \/ IsPrefix(executed, FavorablePath)
  /\ pc \in {"END", "returned"} => executed \in {UnfavorablePath, FavorablePath}
  /\ pc \in Range(FavorablePath) \cup Range(UnfavorablePath) =>
       \/ IsPrefix(Append(executed, pc), UnfavorablePath)
       \/ IsPrefix(Append(executed, pc), FavorablePath)

C7_Witness ==
  /\ pc = "END"
  /\ executed = FavorablePath

\* C8: every run eventually returns its outcome.
C8_RunTerminates == <>(pc = "returned")

C8_Witness ==
  /\ pc = "returned"
  /\ executed \in {UnfavorablePath, FavorablePath}

\* C9: the returned dict mirrors the final planning record: success is the
\* negation of needs_replanning, the other fields are the record's, raw_data
\* holds its four payloads.
C9_OutcomeMirrorsRecord ==
  pc = "returned" =>
    /\ outcome.success = ~state.needs_replanning
    /\ outcome.itinerary_markdown = state.itinerary_markdown
    /\ outcome.weather_favorable = state.weather_favorable
    /\ outcome.alternate_destinations = state.alternate_destinations
    /\ outcome.budget_feasible = state.budget_feasible
    /\ outcome.budget_notes = state.budget_notes
    /\ outcome.messages = state.messages
    /\ outcome.raw_data.weather = state.weather_data
    /\ outcome.raw_data.flights = state.flights
    /\ outcome.raw_data.hotels = state.hotels
    /\ outcome.raw_data.attractions = state.attractions

C9_Witness ==
  /\ pc = "returned"
  /\ outcome.success
  /\ ~outcome.budget_feasible
  /\ outcome.raw_data.weather # None
  /\ outcome.raw_data.flights # None
  /\ outcome.raw_data.hotels = None
  /\ outcome.raw_data.attractions # None

\* the alternates chain returned a parsed answer in this run
AlternatesSucceeded ==
  /\ state.messages # <<>>
  /\ state.messages[Len(state.messages)].text = "Suggested alternates"

\* C10: on the unfavorable path with a successful alternates call the
\* outcome has success false, an empty itinerary and 3 to 5 alternates, each
\* a lower-case city name.
C10_AlternatesShape ==
  (pc = "returned" /\ AlternatesSucceeded) =>
    /\ ~outcome.success
    /\ outcome.itinerary_markdown = ""
    /\ Len(outcome.alternate_destinations) \in 3..5
    /\ Range(outcome.alternate_destinations) \subseteq LowerCase

\* the flight search of this run has failed: the request failed, or the node
\* caught an error of a lookup
FlightSearchFailed ==
  /\ pc \notin {"idle", "fetch_weather", "analyze_weather", "search_flights"}
  /\ \/ "flight_search failed" \in invoked
     \/ \E i \in 1..Len(state.messages) : state.messages[i].text = "Flight search failed"

\* a budget note that states a flight cost
IsFlightNote(note) == note.text \in {"Flight cost exceeds budget", "Flights within budget"}

\* C11: when the flight search fails on the favorable path, flights is absent
\* in the record and in raw_data of the outcome, budget_notes states no flight
\* cost, and the run goes on through search_hotels, search_attractions,
\* check_budget and generate_itinerary.
C11_FlightFailureAbsorbed ==
  FlightSearchFailed =>
    /\ state.flights = None
    /\ \A i \in 1..Len(state.budget_notes) : ~IsFlightNote(state.budget_notes[i])
    /\ pc \in {"search_hotels", "search_attractions", "check_budget", "generate_itinerary",
               "END", "returned"}
    /\ pc \in {"END", "returned"} => executed = FavorablePath
    /\ pc = "returned" =>
         /\ outcome.raw_data.flights = None
         /\ \A i \in 1..Len(outcome.budget_notes) : ~IsFlightNote(outcome.budget_notes[i])

C11_Witness ==
  /\ pc = "returned"
  /\ "flight_search failed" \in invoked
  /\ executed = FavorablePath

\* C12: LLMTripPlanner(config) returns a planner only if the credentials its
\* clients are built from (weather/geocoding, SerpApi, TripAdvisor, Amadeus
\* key and secret) are all usable; any other config is refused by an error
\* raised at construction.
C12_CredentialsCheckedAtConstruction ==
  pc = "idle" =>
    /\ config.OPENWEATHER_API_KEY = "valid"
    /\ config.SERPAPI_KEY = "valid"
    /\ config.TRIPADVISOR_API_KEY = "valid"
    /\ config.AMADEUS_API_KEY = "valid"
    /\ config.AMADEUS_API_SECRET = "valid"

\* C13: every plan_trip call on the planner starts from the default record
\* of its own request, whatever the call before left behind, and no step of
\* a run changes what the planner keeps between calls (the Amadeus token
\* cache, the config), so a run is decided by its request and the answers of
\* its own collaborator calls.
C13_RunsIndependent ==
  /\ [](pc = entry_point => state = InitialState(trip_details) /\ outcome = None)
  /\ [][token_cache' = token_cache /\ config' = config]_vars

C13_Witness ==
  /\ runs > 1
  /\ pc = "returned"
  /\ Len(state.messages) > 0

\* a step of a run is due: a node, or the return of plan_trip
InRun == pc \in Range(FavorablePath) \cup Range(UnfavorablePath) \cup {"END"}

\* C14: the trace log is append-only: over every step of a run the messages
\* before the step are a prefix of the messages after it.
C14_TraceAppendOnly ==
  [][InRun => IsPrefix(state.messages, state'.messages)]_vars

C14_Witness ==
  /\ pc = "returned"
  /\ Len(state.messages) >= Len(FavorablePath)

\* the fields of the trip request
RequestFields ==
  {"destination", "departure", "start_date", "end_date", "duration", "adults",
   "budget_flight", "budget_hotel", "travel_type"}

\* C15: from the start of a run to its end every request field of the record
\* holds the value plan_trip was called with, on both paths and whatever failed.
C15_RequestImmutable ==
  pc # "idle" => \A f \in RequestFields : state[f] = trip_details[f]

C15_Witness ==
  /\ pc = "returned"
  /\ executed = UnfavorablePath
  /\ state.alternate_destinations # <<>>

\* C16: after search_flights, if an airport lookup or the flight search
\* failed, flights is absent and the message the step appended records the
\* failure, not found flights; search_hotels is next.
C16_FlightFailureRecorded ==
  (pc = "search_hotels" /\ {"airport failed", "flight_search failed"} \cap invoked # {}) =>
    /\ state.flights = None
    /\ state.messages # <<>>
    /\ state.messages[Len(state.messages)].text = "Flight search failed"

\* C17: after search_attractions, if the attraction search failed,
\* attractions is absent and the message the step appended records the
\* failure, not found attractions; check_budget is next.
C17_AttractionFailureRecorded ==
  (pc = "check_budget" /\ "attraction_search failed" \in invoked) =>
    /\ state.attractions = None
    /\ state.messages # <<>>
    /\ state.messages[Len(state.messages)].text = "Attractions search failed"

\* C18: after search_hotels, hotels is absent only if the hotel service was
\* asked and the search failed; otherwise hotels holds the payload and the
\* message the step appended reports hotels found.
C18_HotelsAbsentOnlyOnFailure ==
  pc = "search_attractions" =>
    /\ state.hotels = None =>
         "hotel_search" \in invoked /\ "hotel_search failed" \in invoked
    /\ state.hotels # None =>
         state.messages[Len(state.messages)].text = "Found hotels"

\* the texts weather_analysis holds when no analysis was made
WeatherPlaceholders ==
  {"Weather data unavailable, proceeding with planning.",
   "Could not analyze weather, proceeding with planning."}

\* analyze_weather has just run
WeatherJustAnalyzed ==
  /\ executed = <<"fetch_weather", "analyze_weather">>
  /\ pc # "raised"

\* C19: after analyze_weather, if the weather data was absent the weather LLM
\* chain was not invoked, and if the chain failed the result is that of the
\* absent-data case: weather_favorable is true, weather_analysis is a
\* placeholder text, and search_flights is next.
C19_AnalysisFailsOpen ==
  WeatherJustAnalyzed =>
    /\ (state.weather_data = None \/ state.weather_data.data \in {"None", "{}"}) =>
         /\ "llm_weather" \notin invoked
         /\ state.weather_favorable
         /\ state.weather_analysis \in WeatherPlaceholders
         /\ pc = "search_flights"
    /\ "llm_weather failed" \in invoked =>
         /\ state.weather_favorable
         /\ state.weather_analysis \in WeatherPlaceholders
         /\ pc = "search_flights"

C19_Witness ==
  /\ WeatherJustAnalyzed
  /\ "llm_weather failed" \in invoked
  /\ pc = "search_flights"

\* C20: analyze_weather appends exactly one trace message, whether the
\* analysis succeeded, the data was absent or the LLM chain failed.
C20_AnalyzeAppendsOne ==
  [][pc = "analyze_weather" => Len(state'.messages) = Len(state.messages) + 1]_vars

\* C21: once suggest_alternates has run, needs_replanning is true whether or
\* not the alternates LLM chain succeeded, a failed chain leaves
\* alternate_destinations the empty list, and the run is over: no node runs
\* after suggest_alternates and none has run twice.
C21_AlternatesEndRun ==
  "suggest_alternates" \in Range(executed) =>
    /\ state.needs_replanning
    /\ "llm_alternates failed" \in invoked => state.alternate_destinations = <<>>
    /\ pc \in {"END", "returned"}
    /\ executed = UnfavorablePath
    /\ state.destination = trip_details.destination

C21_Witness ==
  /\ pc = "returned"
  /\ "llm_alternates failed" \in invoked
  /\ state.needs_replanning

\* C22: generate_itinerary never lets a failure of its LLM chain escape: the
\* step ends at END, appends exactly one trace message, and that message
\* says the itinerary failed, with itinerary_markdown the fixed non-empty
\* error markdown, if the chain failed, and says it was generated otherwise.
C22_ItineraryFailureAbsorbed ==
  [][pc = "generate_itinerary" =>
       /\ pc' = "END"
       /\ ~propagated'
       /\ Len(state'.messages) = Len(state.messages) + 1
       /\ IF "llm_itinerary failed" \in invoked'
            THEN /\ state'.itinerary_markdown = "# Error generating itinerary"
                 /\ state'.itinerary_markdown # ""
                 /\ state'.messages[Len(state'.messages)].text = "Itinerary generation failed"
            ELSE state'.messages[Len(state'.messages)].text = "Itinerary generated successfully"]_vars

C22_Witness ==
  /\ pc = "END"
  /\ "llm_itinerary failed" \in invoked
  /\ state.itinerary_markdown = "# Error generating itinerary"

\* a budget note that states a hotel cost
IsHotelNote(note) == note.text \in {"Hotel cost exceeds budget", "Hotels within budget"}

\* the placeholder budget_notes holds when no note was recorded
PendingNotes == <<Msg("Budget analysis pending", <<>>)>>

\* a payload that is present, well-formed and lists at least one option
HasOptions(p) == Truthy(p) /\ "options" \in DOMAIN p /\ p.options # <<>>

\* check_budget has just run
BudgetJustChecked == pc = "generate_itinerary"

\* C23 as stated: after check_budget, budget_notes is the pending
\* placeholder exactly when flights and hotels are both absent, a present
\* flights (hotels) payload always leaves a flight (hotel) note, and a flight
\* note stands before a hotel note.
C23_BudgetNotesAsStated ==
  BudgetJustChecked =>
    /\ state.budget_notes = PendingNotes <=> (~Truthy(state.flights) /\ ~Truthy(state.hotels))
    /\ Truthy(state.flights) =>
         \E i \in 1..Len(state.budget_notes) : IsFlightNote(state.budget_notes[i])
    /\ Truthy(state.hotels) =>
         \E i \in 1..Len(state.budget_notes) : IsHotelNote(state.budget_notes[i])
    /\ \A i, j \in 1..Len(state.budget_notes) :
         IsFlightNote(state.budget_notes[i]) /\ IsHotelNote(state.budget_notes[j]) => i < j

\* C23: after check_budget, a flight (hotel) note is recorded exactly when
\* flights (hotels) is present, well-formed and lists at least one option;
\* budget_notes is the recorded notes in the order flight, hotel, and it is
\* the pending placeholder exactly when no note was recorded.
C23_BudgetNotes ==
  BudgetJustChecked =>
    LET notes == state.budget_notes
        f == HasOptions(state.flights)
        h == HasOptions(state.hotels)
    IN  /\ (\E i \in 1..Len(notes) : IsFlightNote(notes[i])) <=> f
        /\ (\E i \in 1..Len(notes) : IsHotelNote(notes[i])) <=> h
        /\ notes = PendingNotes <=> (~f /\ ~h)
        /\ (f \/ h) => Len(notes) = (IF f THEN 1 ELSE 0) + (IF h THEN 1 ELSE 0)
        /\ (f /\ h) => IsFlightNote(notes[1]) /\ IsHotelNote(notes[2])

C23_Witness ==
  /\ BudgetJustChecked
  /\ Len(state.budget_notes) = 2
  /\ IsFlightNote(state.budget_notes[1])
  /\ IsHotelNote(state.budget_notes[2])

\* the price a note reports is the least of the prices the payload carries
ReportsLeastPrice(note, p) ==
  /\ note.args[1] \in Priced(p)
  /\ \A x \in Priced(p) : note.args[1] <= x

\* C24: after check_budget over a non-empty list of flight options (hotel
\* properties), the price the flight (hotel) note compares and reports is
\* the price of an entry that carries one, and the least such price, also
\* when some or all entries carry none.
C24_UnpricedNeverCompared ==
  BudgetJustChecked =>
    /\ HasOptions(state.flights) =>
         \A i \in 1..Len(state.budget_notes) :
           IsFlightNote(state.budget_notes[i]) =>
             ReportsLeastPrice(state.budget_notes[i], state.flights)
    /\ HasOptions(state.hotels) =>
         \A i \in 1..Len(state.budget_notes) :
           IsHotelNote(state.budget_notes[i]) =>
             ReportsLeastPrice(state.budget_notes[i], state.hotels)

\* a payload of a shape the lookups of check_budget_node fail on
Malformed(p) == Truthy(p) /\ "malformed" \in DOMAIN p

\* C25: check_budget never fails, whatever the flights and hotels payloads:
\* generate_itinerary is next, budget_feasible and budget_notes are set, one
\* trace message is appended; a malformed flights payload leaves no flight
\* note and the hotel note is recorded as if flights were absent, and a
\* malformed hotels payload leaves no hotel note and the flight note is
\* recorded as if hotels were absent.
C25_BudgetNeverFails ==
  [][pc = "check_budget" =>
       LET notes == state'.budget_notes
           flight_note == \E i \in 1..Len(notes) : IsFlightNote(notes[i])
           hotel_note == \E i \in 1..Len(notes) : IsHotelNote(notes[i])
       IN  /\ pc' = "generate_itinerary"
           /\ ~propagated'
           /\ notes # <<>>
           /\ state'.budget_feasible <=> \A i \in 1..Len(notes) : ~is_exceeds(notes[i])
           /\ Len(state'.messages) = Len(state.messages) + 1
           /\ state'.messages[Len(state'.messages)].text = "Budget check"
           /\ Malformed(state.flights) =>
                ~flight_note /\ (hotel_note <=> HasOptions(state.hotels))
           /\ Malformed(state.hotels) =>
                ~hotel_note /\ (flight_note <=> HasOptions(state.flights))]_vars

C25_Witness ==
  /\ BudgetJustChecked
  /\ Malformed(state.flights)
  /\ \E i \in 1..Len(state.budget_notes) : IsHotelNote(state.budget_notes[i])

TokenJustAsked == "call" \in DOMAIN state /\ state.call = "get_valid_token"

\* C27: get_valid_token sends no token request exactly when a token is
\* cached and the time is earlier than expires_at - 30, and then returns the
\* cached token and leaves the cache alone; otherwise a fetched token is
\* returned and cached with expires_at = now + expires_in, and a failed
\* fetch returns None and leaves the cache with access_token None and
\* expires_at 0.
C27_TokenCaching ==
  TokenJustAsked =>
    LET cached == /\ state.before.access_token # "None"
                  /\ state.at < state.before.expires_at - 30
    IN  /\ ~state.fetched <=> cached
        /\ cached => state.val = state.before.access_token /\ token_cache = state.before
        /\ (~cached /\ "error" \notin DOMAIN state.http) =>
             /\ state.val = state.http.access_token
             /\ token_cache = [access_token |-> state.http.access_token,
                               expires_at |-> state.at + state.http.expires_in]
        /\ (~cached /\ "error" \in DOMAIN state.http) =>
             /\ state.val = "None"
             /\ token_cache = [access_token |-> "None", expires_at |-> 0]

C27_Witness ==
  /\ TokenJustAsked
  /\ ~state.fetched
  /\ state.at > 0
  /\ state.val = "tok"

\* C29: whenever find_nearest_airport sends its airport request, the token
\* it sends is unexpired at that moment: the time of the call is earlier
\* than expires_at of the cache, however many lookups the client has made.
C29_LookupTokenUnexpired ==
  ("call" \in DOMAIN state /\ state.call = "find_nearest_airport" /\ state.sent) =>
    state.at < state.token.expires_at

\* C28: a run starts only from a plan_trip call of the caller, never out of
\* a step of a run: suggest_alternates is followed by END; the trip request
\* changes only when an alternate of the returned outcome is picked, the new
\* request then equals the one before in every field but destination, which
\* is the picked alternate; and the run that follows starts from that request.
C28_RerunOnlyOnPick ==
  [][/\ pc' = entry_point => pc = "idle"
     /\ pc = "suggest_alternates" => pc' = "END"
     /\ trip_details' # trip_details =>
          /\ pc = "returned"
          /\ \E i \in 1..Len(outcome.alternate_destinations) :
               /\ trip_details'.destination = outcome.alternate_destinations[i]
               /\ \A f \in RequestFields \ {"destination"} : trip_details'[f] = trip_details[f]
     /\ (pc = "idle" /\ pc' = entry_point) =>
          \A f \in RequestFields : state'[f] = trip_details[f]]_vars

C28_Witness ==
  /\ runs > 1
  /\ pc = "returned"
  /\ trip_details.destination \in CityNames
  /\ state.destination = trip_details.destination

\* C30: in every outcome success is true exactly when weather_favorable is
\* true, and an outcome with weather_favorable false has flights, hotels and
\* attractions absent in raw_data, budget_feasible true and empty budget_notes.
C30_SuccessIffFavorable ==
  pc = "returned" =>
    /\ outcome.success <=> outcome.weather_favorable
    /\ ~outcome.weather_favorable =>
         /\ outcome.raw_data.flights = None
         /\ outcome.raw_data.hotels = None
         /\ outcome.raw_data.attractions = None
         /\ outcome.budget_feasible
         /\ outcome.budget_notes = <<>>

C30_Witness ==
  /\ pc = "returned"
  /\ ~outcome.weather_favorable
  /\ ~outcome.success
  /\ outcome.raw_data.weather # None

====
